---- MODULE Spec2Model ----
(***************************************************************************)
(* pngMe: chunk type codes, chunks, the PNG container and the commands     *)
(* that rewrite a carrier file.                                            *)
(*                                                                         *)
(* Representation.  A u8 is a number in 0..255 and a byte buffer a         *)
(* sequence of them.  A u32 is the set of its one-bit positions (a subset  *)
(* of 0..31), so that xor, shifts and the big-endian conversions keep the  *)
(* full 32-bit width.  A Result or Option is a record with a tag field.    *)
(***************************************************************************)
EXTENDS Integers, Sequences, FiniteSets, TLC

VARIABLES
    text,     \* the last input handed to a ChunkType constructor
    ctype,    \* the Result of the last ChunkType construction
    value,    \* the last byte slice handed to Chunk::try_from
    chunk,    \* the last Chunk construction: how it was built and its Result
    file,     \* the bytes of the carrier file at file_path
    out       \* what the last command did: its arguments and its outcome

vars == <<text, ctype, value, chunk, file, out>>

Ok(v) == [tag |-> "Ok", val |-> v]

Err(e) == [tag |-> "Err", err |-> e]

Some(v) == [tag |-> "Some", val |-> v]

None == [tag |-> "None"]

Panic(e) == [tag |-> "Panic", err |-> e]

(***************************************************************************)
(* u8 / u32 arithmetic                                                     *)
(***************************************************************************)
Bits8(b) == {i \in 0..7 : (b \div (2 ^ i)) % 2 = 1}

Byte8(S, lo) ==
    LET bit(i) == IF (lo + i) \in S THEN 2 ^ i ELSE 0
    IN  bit(0) + bit(1) + bit(2) + bit(3) + bit(4) + bit(5) + bit(6) + bit(7)

u32_from_be_bytes(b) ==
    {24 + i : i \in Bits8(b[1])} \cup {16 + i : i \in Bits8(b[2])}
        \cup {8 + i : i \in Bits8(b[3])} \cup Bits8(b[4])

u32_to_be_bytes(S) == <<Byte8(S, 24), Byte8(S, 16), Byte8(S, 8), Byte8(S, 0)>>

\* `n as u32` for a usize n; every buffer of the model is shorter than 2^31
usize_as_u32(n) == {i \in 0..30 : (n \div (2 ^ i)) % 2 = 1}

Xor(A, B) == (A \ B) \cup (B \ A)

Shr1(A) == {i - 1 : i \in A \ {0}}

(***************************************************************************)
(* crc::Crc::<u32>::new(&crc::CRC_32_ISO_HDLC).checksum: reflected         *)
(* polynomial 0xEDB88320, init and xorout 0xFFFFFFFF.  The register is     *)
(* updated one input byte at a time through the 256-entry table; while it  *)
(* is being updated it is held as its four big-endian bytes.               *)
(***************************************************************************)
CrcPoly == {31, 30, 29, 27, 26, 24, 23, 21, 20, 19, 15, 9, 8, 5}

CrcStep(c) == IF 0 \in c THEN Xor(Shr1(c), CrcPoly) ELSE Shr1(c)

CrcTable ==
    [n \in 0..255 |->
        u32_to_be_bytes(
            CrcStep(CrcStep(CrcStep(CrcStep(CrcStep(CrcStep(CrcStep(CrcStep(Bits8(n))))))))))]

XorNibble == [p \in 0..15 |-> [q \in 0..15 |-> Byte8(Xor(Bits8(p), Bits8(q)), 0)]]

XorByte(p, q) == 16 * XorNibble[p \div 16][q \div 16] + XorNibble[p % 16][q % 16]

\* crc = table[(crc ^ byte) & 0xFF] ^ (crc >> 8)
CrcNext(r, b) ==
    LET t == CrcTable[XorByte(r[4], b)]
    IN  <<t[1], XorByte(t[2], r[1]), XorByte(t[3], r[2]), XorByte(t[4], r[3])>>

\* the bytes buf[lo..hi] are folded in order; the range is split in halves
\* and the register after the left half is evaluated before the right half is
\* folded
RECURSIVE CrcUpdate(_, _, _, _)
CrcUpdate(r, buf, lo, hi) ==
    IF lo > hi THEN r
    ELSE IF lo = hi THEN CrcNext(r, buf[lo])
    ELSE LET mid == (lo + hi) \div 2
             left == CrcUpdate(r, buf, lo, mid)
         IN  IF left[1] >= 0 THEN CrcUpdate(left, buf, mid + 1, hi) ELSE left

\* checksum taken over the bytes after the first four
checksum_after_tag(buf) ==
    LET r == CrcUpdate(<<255, 255, 255, 255>>, buf, 5, Len(buf))
    IN  u32_from_be_bytes(<<255 - r[1], 255 - r[2], 255 - r[3], 255 - r[4]>>)

checksum(buf) ==
    LET r == CrcUpdate(<<255, 255, 255, 255>>, buf, 1, Len(buf))
    IN  u32_from_be_bytes(<<255 - r[1], 255 - r[2], 255 - r[3], 255 - r[4]>>)

(***************************************************************************)
(* ChunkType                                                               *)
(***************************************************************************)
is_ascii(b) == b < 128

is_ascii_uppercase(b) == b \in 65..90

is_ascii_lowercase(b) == b \in 97..122

is_ascii_alphabetic(b) == is_ascii_uppercase(b) \/ is_ascii_lowercase(b)

get_type_from_code(code) ==
    CASE code = <<73, 72, 68, 82>> -> "IHDR"
      [] code = <<73, 68, 65, 84>> -> "IDAT"
      [] code = <<80, 76, 84, 69>> -> "PLTE"
      [] code = <<73, 69, 78, 68>> -> "IEND"
      [] OTHER -> "ANCILLARY"

\* FromStr for ChunkType; s is the byte sequence of a &str
ChunkType_from_str(s) ==
    IF Len(s) # 4 THEN Err("InvalidLength")
    ELSE IF ~ \A i \in 1..4 : is_ascii(s[i]) /\ is_ascii_alphabetic(s[i])
    THEN Err("NotASCII")
    ELSE Ok([typ |-> get_type_from_code(s), code |-> s])

\* TryFrom<[u8; 4]> for ChunkType
ChunkType_try_from(v) == Ok([typ |-> get_type_from_code(v), code |-> v])

bytes(ct) == ct.code

is_critical(ct) == is_ascii_uppercase(ct.code[1])

is_public(ct) == is_ascii_uppercase(ct.code[2])

is_reserved_bit_valid(ct) == is_ascii_uppercase(ct.code[3])

is_safe_to_copy(ct) == ~ is_ascii_uppercase(ct.code[4])

is_valid(ct) == (\A i \in 1..4 : is_ascii(ct.code[i])) /\ is_reserved_bit_valid(ct)

(***************************************************************************)
(* String::from_utf8: whether a byte sequence is well-formed UTF-8         *)
(***************************************************************************)
IsCont(s, i) == i <= Len(s) /\ s[i] \in 128..191

RECURSIVE IsUtf8From(_, _)
IsUtf8From(s, i) ==
    IF i > Len(s) THEN TRUE
    ELSE LET b == s[i] IN
        CASE b < 128 -> IsUtf8From(s, i + 1)
          [] b \in 194..223 -> IsCont(s, i + 1) /\ IsUtf8From(s, i + 2)
          [] b = 224 ->
                i + 1 <= Len(s) /\ s[i + 1] \in 160..191 /\ IsCont(s, i + 2)
                    /\ IsUtf8From(s, i + 3)
          [] b \in (225..236) \cup {238, 239} ->
                IsCont(s, i + 1) /\ IsCont(s, i + 2) /\ IsUtf8From(s, i + 3)
          [] b = 237 ->
                i + 1 <= Len(s) /\ s[i + 1] \in 128..159 /\ IsCont(s, i + 2)
                    /\ IsUtf8From(s, i + 3)
          [] b = 240 ->
                i + 1 <= Len(s) /\ s[i + 1] \in 144..191 /\ IsCont(s, i + 2)
                    /\ IsCont(s, i + 3) /\ IsUtf8From(s, i + 4)
          [] b \in 241..243 ->
                IsCont(s, i + 1) /\ IsCont(s, i + 2) /\ IsCont(s, i + 3)
                    /\ IsUtf8From(s, i + 4)
          [] b = 244 ->
                i + 1 <= Len(s) /\ s[i + 1] \in 128..143 /\ IsCont(s, i + 2)
                    /\ IsCont(s, i + 3) /\ IsUtf8From(s, i + 4)
          [] OTHER -> FALSE

from_utf8_ok(s) == IsUtf8From(s, 1)

(***************************************************************************)
(* Chunk                                                                   *)
(***************************************************************************)
\* Chunk_try_from without the comparison of the stored checksum
Chunk_try_from_unchecked(vc) ==
    IF Len(vc) < 12 THEN Err("TooShort")
    ELSE LET len == u32_from_be_bytes(SubSeq(vc, 1, 4))
             chunk_type_bytes == SubSeq(vc, 5, 8)
         IN  IF ~ from_utf8_ok(chunk_type_bytes)
             THEN Err("Invalid UTF-8 in chunk type")
             ELSE LET chunk_type == ChunkType_from_str(chunk_type_bytes) IN
                 IF chunk_type.tag # "Ok" THEN chunk_type
                 ELSE Ok([len |-> len, chunk_type |-> chunk_type.val,
                          data |-> SubSeq(vc, 9, Len(vc) - 4),
                          crc |-> u32_from_be_bytes(SubSeq(vc, Len(vc) - 3, Len(vc)))])

\* TryFrom<&[u8]> for Chunk
Chunk_try_from(vc) ==
    IF Len(vc) < 12 THEN Err("TooShort")
    ELSE LET len == u32_from_be_bytes(SubSeq(vc, 1, 4))
             chunk_type_bytes == SubSeq(vc, 5, 8)
         IN  IF ~ from_utf8_ok(chunk_type_bytes)
             THEN Err("Invalid UTF-8 in chunk type")
             ELSE LET chunk_type == ChunkType_from_str(chunk_type_bytes) IN
                 IF chunk_type.tag # "Ok" THEN chunk_type
                 ELSE LET data == SubSeq(vc, 9, Len(vc) - 4)
                          crc == u32_from_be_bytes(SubSeq(vc, Len(vc) - 3, Len(vc)))
                      IN  IF checksum(bytes(chunk_type.val) \o data) = crc
                          THEN Ok([len |-> len, chunk_type |-> chunk_type.val,
                                   data |-> data, crc |-> crc])
                          ELSE Err("InvalidCrc")

\* Chunk_new with the checksum taken over the payload alone
Chunk_new_data_crc(chunk_type, data) ==
    [len |-> usize_as_u32(Len(data)), chunk_type |-> chunk_type,
     data |-> data, crc |-> checksum(data)]

Chunk_new(chunk_type, data) ==
    [len |-> usize_as_u32(Len(data)), chunk_type |-> chunk_type,
     data |-> data, crc |-> checksum(bytes(chunk_type) \o data)]

\* Chunk_as_bytes with the length computed from the whole record
Chunk_as_bytes_total_len(c) ==
    u32_to_be_bytes(usize_as_u32(Len(c.data) + 12)) \o bytes(c.chunk_type)
        \o c.data \o u32_to_be_bytes(c.crc)

Chunk_as_bytes(c) ==
    u32_to_be_bytes(c.len) \o bytes(c.chunk_type) \o c.data \o u32_to_be_bytes(c.crc)

data_as_string(c) == IF from_utf8_ok(c.data) THEN Ok(c.data) ELSE Err("FromUtf8Error")

(***************************************************************************)
(* IhdrChunk and Display for Chunk                                         *)
(***************************************************************************)
CHUNK_LENGTH == 13

\* TryFrom<Chunk> for IhdrChunk; the indexing of bytes panics past its end
IhdrChunk_try_from(c) ==
    IF c.len # usize_as_u32(CHUNK_LENGTH) THEN Err("InvalidLength")
    ELSE IF Len(c.data) < CHUNK_LENGTH THEN Panic("index out of bounds")
    ELSE Ok([width |-> u32_from_be_bytes(SubSeq(c.data, 1, 4)),
             height |-> u32_from_be_bytes(SubSeq(c.data, 5, 8)),
             bit_depth |-> c.data[9], color_type |-> c.data[10],
             compression_method |-> c.data[11], filter_method |-> c.data[12],
             interlace_method |-> c.data[13]])

\* Display for Chunk: the line written, or the panic of unwrap()
Chunk_fmt(c) ==
    CASE c.chunk_type.typ = "IHDR" ->
            LET h == IhdrChunk_try_from(c)
            IN  IF h.tag = "Ok" THEN Ok(<<"IHDR", h.val>>)
                ELSE IF h.tag = "Err" THEN Panic("called unwrap() on an Err value")
                ELSE h
      [] c.chunk_type.typ = "IDAT" ->
            Ok(<<"Chunk", c.len, c.data, c.chunk_type.code, c.crc>>)
      [] c.chunk_type.typ = "IEND" -> Ok(<<"IEND : END OF IMAGE">>)
      [] OTHER -> Ok(<<"Chunk", c.len, c.chunk_type.code, c.crc>>)

(***************************************************************************)
(* Inputs of the chunk-level operations                                    *)
(***************************************************************************)
MaxData == 2

DataBytes == {104, 255}

Payloads == UNION {[1..n -> DataBytes] : n \in 0..MaxData}

\* "RuSt" "ruSt" "RUSt" "Rust" "RuST" "IHDR" "IEND" "Ru1t" "abcde" "Rus" "" and
\* the four bytes of a two-letter non-ASCII text
TypeTexts ==
    {<<82, 117, 83, 116>>, <<114, 117, 83, 116>>, <<82, 85, 83, 116>>,
     <<82, 117, 115, 116>>, <<82, 117, 83, 84>>, <<73, 72, 68, 82>>,
     <<73, 69, 78, 68>>, <<82, 117, 49, 116>>, <<97, 98, 99, 100, 101>>,
     <<82, 117, 115>>, <<>>, <<195, 169, 195, 169>>}

\* [u8; 4] values: "RuSt", "IHDR", "RuS1", "Ru t" and two with bytes over 127
TypeArrays ==
    {<<82, 117, 83, 116>>, <<73, 72, 68, 82>>, <<82, 117, 83, 49>>,
     <<82, 117, 32, 116>>, <<255, 117, 83, 116>>, <<195, 169, 83, 116>>}

LenFields ==
    {u32_to_be_bytes(usize_as_u32(n)) : n \in 0..(MaxData + 1)}
        \cup {<<255, 255, 255, 255>>}

Tags == {<<82, 117, 83, 116>>, <<82, 117, 49, 116>>, <<255, 117, 83, 116>>}

\* byte slices handed to Chunk::try_from: every length field, tag and payload
\* with the checksum of tag and payload or that checksum with its low bit
\* flipped, and two slices shorter than a chunk
ChunkSlices ==
    {lf \o tg \o p \o u32_to_be_bytes(Xor(checksum(tg \o p), flip)) :
        lf \in LenFields, tg \in Tags, p \in Payloads, flip \in {{}, {0}}}
        \cup {<<>>, <<0, 0, 0, 0, 82, 117, 83, 116, 212, 132, 9>>}

NoChunk == [via |-> "none", orig |-> None, res |-> None]

NoOut == [cmd |-> "none", ext |-> "none", chunk_type |-> <<>>, message |-> <<>>,
          before |-> <<>>, res |-> None]

LibInit ==
    /\ text = <<>>
    /\ ctype = None
    /\ value = <<>>
    /\ chunk = NoChunk
    /\ file = <<>>
    /\ out = NoOut

\* ChunkType::from_str(s); the chunk of an earlier construction is dropped
from_str ==
    \E s \in TypeTexts :
        /\ text' = s
        /\ ctype' = ChunkType_from_str(s)
        /\ value' = <<>>
        /\ chunk' = NoChunk
        /\ UNCHANGED <<file, out>>

\* ChunkType::try_from(v) for a [u8; 4]
try_from_array ==
    \E v \in TypeArrays :
        /\ text' = v
        /\ ctype' = ChunkType_try_from(v)
        /\ value' = <<>>
        /\ chunk' = NoChunk
        /\ UNCHANGED <<file, out>>

\* Chunk::new(chunk_type, data) with the ChunkType constructed last
new ==
    \E data \in Payloads :
        /\ ctype.tag = "Ok"
        /\ chunk' = [via |-> "new", orig |-> None, res |-> Ok(Chunk_new(ctype.val, data))]
        /\ value' = <<>>
        /\ UNCHANGED <<text, ctype, file, out>>

\* Chunk::try_from(slice)
try_from ==
    \E v \in ChunkSlices :
        /\ value' = v
        /\ chunk' = [via |-> "try_from", orig |-> None, res |-> Chunk_try_from(v)]
        /\ text' = <<>>
        /\ ctype' = None
        /\ UNCHANGED <<file, out>>

\* Chunk::try_from(chunk.as_bytes().as_ref()) for the chunk constructed last
reparse ==
    /\ chunk.via \in {"new", "try_from"}
    /\ chunk.res.tag = "Ok"
    /\ value' = Chunk_as_bytes(chunk.res.val)
    /\ chunk' = [via |-> "reparse", orig |-> Some(chunk.res.val),
                 res |-> Chunk_try_from(Chunk_as_bytes(chunk.res.val))]
    /\ UNCHANGED <<text, ctype, file, out>>

LibNext == from_str \/ try_from_array \/ new \/ try_from \/ reparse

LibSpec == LibInit /\ [][LibNext]_vars

\* the byte b with its bit k inverted
FlipBit(b, k) == Byte8(Xor(Bits8(b), {k}), 0)

\* Chunk::try_from on the serialized bytes of the chunk constructed last with
\* one bit of its type tag or payload inverted
flip ==
    /\ chunk.via \in {"new", "try_from"}
    /\ chunk.res.tag = "Ok"
    /\ \E bs \in {Chunk_as_bytes(chunk.res.val)} :
          \E i \in 5..(Len(bs) - 4), k \in 0..7 :
              \E v \in {[bs EXCEPT ![i] = FlipBit(bs[i], k)]} :
                  /\ value' = v
                  /\ chunk' = [via |-> "flip", orig |-> Some(chunk.res.val),
                               res |-> Chunk_try_from(v)]
    /\ UNCHANGED <<text, ctype, file, out>>

\* the constructions followed by one flip: a flip changes value and chunk
\* only, which every construction overwrites, so a flip ends the run
FlipNext == (chunk.via # "flip" /\ LibNext) \/ flip

FlipSpec == LibInit /\ [][FlipNext]_vars

\* Display for the chunk constructed last: format!("{}", chunk)
fmt ==
    /\ chunk.res.tag = "Ok"
    /\ out' = [NoOut EXCEPT !.cmd = "fmt", !.res = Chunk_fmt(chunk.res.val)]
    /\ UNCHANGED <<text, ctype, value, chunk, file>>

\* the constructions followed by the formatting of the chunk: the line is
\* read once written, which ends the run
FmtNext == (out.cmd = "none" /\ LibNext) \/ fmt

FmtSpec == LibInit /\ [][FmtNext]_vars

(***************************************************************************)
(* Png: the container.  A Png value is [chunks |-> the stored sequence].   *)
(***************************************************************************)
STANDARD_HEADER == <<137, 80, 78, 71, 13, 10, 26, 10>>

\* the value of a u32 below 2^24 as a number
u32_as_usize(S) == Byte8(S, 16) * 65536 + Byte8(S, 8) * 256 + Byte8(S, 0)

\* whether n bytes hold the 12 + length bytes of a whole record
HoldsRecord(S, n) == (\A i \in S : i < 24) /\ 12 + u32_as_usize(S) <= n

\* the records from position pos on, each framed by its length field and
\* parsed by Chunk::try_from, until the cursor reaches the end of the buffer
RECURSIVE ParseChunks(_, _, _)
ParseChunks(buf, pos, acc) ==
    LET rest == Len(buf) - pos + 1 IN
    IF rest = 0 THEN Ok([chunks |-> acc])
    ELSE IF rest < 12 THEN Err("TrailingGarbage")
    ELSE LET length == u32_from_be_bytes(SubSeq(buf, pos, pos + 3)) IN
        IF ~ HoldsRecord(length, rest) THEN Err("TrailingGarbage")
        ELSE LET size == 12 + u32_as_usize(length)
                 c == Chunk_try_from(SubSeq(buf, pos, pos + size - 1))
             IN  IF c.tag # "Ok" THEN c
                 ELSE ParseChunks(buf, pos + size, Append(acc, c.val))

\* TryFrom<&[u8]> for Png
Png_try_from(buf) ==
    IF Len(buf) < 8 \/ SubSeq(buf, 1, 8) # STANDARD_HEADER
    THEN Err("InvalidSignature")
    ELSE ParseChunks(buf, 9, <<>>)

RECURSIVE ChunksAsBytes(_)
ChunksAsBytes(cs) ==
    IF cs = <<>> THEN <<>> ELSE Chunk_as_bytes(Head(cs)) \o ChunksAsBytes(Tail(cs))

Png_as_bytes(png) == STANDARD_HEADER \o ChunksAsBytes(png.chunks)

append_chunk(png, c) == [chunks |-> Append(png.chunks, c)]

\* the positions of the chunks whose type tag is byte for byte the text t
Matches(png, t) == {i \in 1..Len(png.chunks) : png.chunks[i].chunk_type.code = t}

FirstMatch(png, t) == CHOOSE i \in Matches(png, t) : \A j \in Matches(png, t) : i <= j

chunk_by_type(png, t) ==
    IF Matches(png, t) = {} THEN None ELSE Some(png.chunks[FirstMatch(png, t)])

\* the chunk removed and the container left
remove_first_chunk(png, t) ==
    IF Matches(png, t) = {} THEN Err("NotFound")
    ELSE LET i == FirstMatch(png, t)
         IN  Ok([chunk |-> png.chunks[i],
                 png |-> [chunks |-> SubSeq(png.chunks, 1, i - 1)
                                        \o SubSeq(png.chunks, i + 1, Len(png.chunks))]])

Png_verify(png) ==
    png.chunks # <<>> /\ png.chunks[Len(png.chunks)].chunk_type.typ = "IEND"

\* Display for Png: one line per chunk, or the first panic of a chunk's Display
Png_fmt(png) ==
    LET lines == [i \in 1..Len(png.chunks) |-> Chunk_fmt(png.chunks[i])]
        bad == {i \in 1..Len(png.chunks) : lines[i].tag # "Ok"}
    IN  IF bad = {} THEN Ok([i \in 1..Len(png.chunks) |-> lines[i].val])
        ELSE lines[CHOOSE i \in bad : \A j \in bad : i <= j]

(***************************************************************************)
(* The commands.  Each takes the bytes of the file at file_path, the       *)
(* extension of file_path ("none" when it has none) and its arguments, and *)
(* gives its outcome and the bytes of the file afterwards.  fs::read and   *)
(* fs::write succeed.  The container read from the file is bound once,     *)
(* as png, through a one-element set.                                      *)
(***************************************************************************)
NotPng == Err("This program takes only PNG files")

Stopped(f, ext) ==
    IF ext = "none" THEN [res |-> Panic("called unwrap() on a None value"), file |-> f]
    ELSE [res |-> NotPng, file |-> f]

encode(f, ext, chunk_type, message) ==
    IF ext # "png" THEN Stopped(f, ext)
    ELSE CHOOSE r \in {
        IF png.tag # "Ok" THEN [res |-> png, file |-> f]
        ELSE LET ct == ChunkType_from_str(chunk_type) IN
            IF ct.tag # "Ok" THEN [res |-> ct, file |-> f]
            ELSE [res |-> Ok(<<"Message encoded successfully!">>),
                  file |-> Png_as_bytes(
                              append_chunk(png.val, Chunk_new(ct.val, message)))]
        : png \in {Png_try_from(f)}} : TRUE

decode(f, ext, chunk_type) ==
    IF ext # "png" THEN Stopped(f, ext)
    ELSE CHOOSE r \in {
        IF png.tag # "Ok" THEN [res |-> png, file |-> f]
        ELSE LET found == chunk_by_type(png.val, chunk_type) IN
            IF found.tag = "None"
            THEN [res |-> Ok(<<"No message hidden in this image with this chunk type">>),
                  file |-> f]
            ELSE LET s == data_as_string(found.val) IN
                IF s.tag # "Ok"
                THEN [res |-> Panic("called unwrap() on an Err value"), file |-> f]
                ELSE [res |-> Ok(<<"Message: ", s.val>>), file |-> f]
        : png \in {Png_try_from(f)}} : TRUE

\* remove with the result of remove_first_chunk dropped instead of propagated
remove_unpropagated(f, ext, chunk_type) ==
    IF ext # "png" THEN Stopped(f, ext)
    ELSE CHOOSE r \in {
        IF png.tag # "Ok" THEN [res |-> png, file |-> f]
        ELSE LET removed == remove_first_chunk(png.val, chunk_type) IN
            [res |-> Ok(<<"Message has been removed successfully!">>),
             file |-> IF removed.tag # "Ok" THEN f ELSE Png_as_bytes(removed.val.png)]
        : png \in {Png_try_from(f)}} : TRUE

remove(f, ext, chunk_type) ==
    IF ext # "png" THEN Stopped(f, ext)
    ELSE CHOOSE r \in {
        IF png.tag # "Ok" THEN [res |-> png, file |-> f]
        ELSE LET removed == remove_first_chunk(png.val, chunk_type) IN
            IF removed.tag # "Ok" THEN [res |-> removed, file |-> f]
            ELSE [res |-> Ok(<<"Message has been removed successfully!">>),
                  file |-> Png_as_bytes(removed.val.png)]
        : png \in {Png_try_from(f)}} : TRUE

\* print with a failed Png::try_from written out instead of propagated
print_unpropagated(f, ext) ==
    IF ext # "png" THEN Stopped(f, ext)
    ELSE CHOOSE r \in {
        IF png.tag # "Ok" THEN [res |-> Ok(<<>>), file |-> f]
        ELSE [res |-> Png_fmt(png.val), file |-> f]
        : png \in {Png_try_from(f)}} : TRUE

print(f, ext) ==
    IF ext # "png" THEN Stopped(f, ext)
    ELSE CHOOSE r \in {
        IF png.tag # "Ok" THEN [res |-> png, file |-> f]
        ELSE [res |-> Png_fmt(png.val), file |-> f]
        : png \in {Png_try_from(f)}} : TRUE

verify(f, ext) ==
    IF ext # "png" THEN Stopped(f, ext)
    ELSE CHOOSE r \in {
        IF png.tag # "Ok" THEN [res |-> png, file |-> f]
        ELSE IF Png_verify(png.val)
        THEN [res |-> Ok(<<"File is a valid PNG">>), file |-> f]
        ELSE [res |-> Ok(<<"File is not a valid PNG">>), file |-> f]
        : png \in {Png_try_from(f)}} : TRUE

(***************************************************************************)
(* Carrier files and command arguments                                     *)
(***************************************************************************)
MaxChunks == 2

IhdrRecord ==
    <<0, 0, 0, 13, 73, 72, 68, 82, 0, 0, 0, 1, 0, 0, 0, 1, 8, 2, 0, 0, 0,
      144, 119, 83, 222>>

IendRecord == <<0, 0, 0, 0, 73, 69, 78, 68, 174, 66, 96, 130>>

IdatRecord == <<0, 0, 0, 1, 73, 68, 65, 84, 255, 5, 58, 146, 101>>

\* ruSt "hi", RuSt "", ruSt with the payload byte 255
RustHiRecord == <<0, 0, 0, 2, 114, 117, 83, 116, 104, 105, 213, 16, 58, 69>>

RuStRecord == <<0, 0, 0, 0, 82, 117, 83, 116, 212, 132, 9, 60>>

RustFFRecord == <<0, 0, 0, 1, 114, 117, 83, 116, 255, 17, 122, 215, 138>>

\* an IHDR record of 2 payload bytes, with its right checksum
ShortIhdrRecord == <<0, 0, 0, 2, 73, 72, 68, 82, 104, 105, 19, 18, 228, 104>>

MinimalPng == STANDARD_HEADER \o IhdrRecord \o IendRecord

\* the files the commands may meet: well-formed containers, and buffers with
\* a wrong signature, trailing bytes, a wrong checksum, a record running past
\* the end, a tag that is not four letters or not UTF-8, or fewer than 8 bytes
WellFormedFiles ==
    {STANDARD_HEADER,
     MinimalPng,
     STANDARD_HEADER \o IhdrRecord \o IdatRecord \o IendRecord,
     STANDARD_HEADER \o RustHiRecord \o RuStRecord \o RustFFRecord,
     STANDARD_HEADER \o ShortIhdrRecord \o IendRecord}

MalformedFiles ==
    {<<136>> \o Tail(MinimalPng),
     MinimalPng \o <<0, 0, 0>>,
     STANDARD_HEADER \o IhdrRecord \o <<0, 0, 0, 2, 114, 117, 83, 116, 104, 105, 213, 16, 58, 68>>,
     STANDARD_HEADER \o <<0, 0, 0, 5, 114, 117, 83, 116, 104, 105, 213, 16, 58, 69>>,
     STANDARD_HEADER \o <<0, 0, 0, 0, 82, 117, 49, 116, 131, 79, 0, 25>> \o IendRecord,
     STANDARD_HEADER \o <<0, 0, 0, 0, 255, 117, 83, 116, 107, 133, 200, 228>>,
     <<137, 80, 78>>}

InitFiles == WellFormedFiles \cup MalformedFiles

Exts == {"png", "txt", "none"}

\* "ruSt" "IEND" "Ru1t" "abcde"
ArgTypes ==
    {<<114, 117, 83, 116>>, <<73, 69, 78, 68>>, <<82, 117, 49, 116>>,
     <<97, 98, 99, 100, 101>>}

\* "hi" and the empty message
Messages == {<<104, 105>>, <<>>}

Init ==
    /\ text = <<>>
    /\ ctype = None
    /\ value = <<>>
    /\ chunk = NoChunk
    /\ file \in InitFiles
    /\ out = NoOut

\* the container in the file has room for one more chunk
Room(f) ==
    LET png == Png_try_from(f) IN png.tag = "Ok" => Len(png.val.chunks) < MaxChunks

RunEncode ==
    /\ Room(file)
    /\ \E ext \in Exts, t \in ArgTypes, m \in Messages :
        \E r \in {encode(file, ext, t, m)} :
        /\ file' = r.file
        /\ out' = [cmd |-> "encode", ext |-> ext, chunk_type |-> t, message |-> m,
                   before |-> file, res |-> r.res]
        /\ UNCHANGED <<text, ctype, value, chunk>>

RunDecode ==
    \E ext \in Exts, t \in ArgTypes :
        \E r \in {decode(file, ext, t)} :
        /\ file' = r.file
        /\ out' = [cmd |-> "decode", ext |-> ext, chunk_type |-> t, message |-> <<>>,
                   before |-> file, res |-> r.res]
        /\ UNCHANGED <<text, ctype, value, chunk>>

RunRemove ==
    \E ext \in Exts, t \in ArgTypes :
        \E r \in {remove(file, ext, t)} :
        /\ file' = r.file
        /\ out' = [cmd |-> "remove", ext |-> ext, chunk_type |-> t, message |-> <<>>,
                   before |-> file, res |-> r.res]
        /\ UNCHANGED <<text, ctype, value, chunk>>

RunPrint ==
    \E ext \in Exts :
        \E r \in {print(file, ext)} :
        /\ file' = r.file
        /\ out' = [cmd |-> "print", ext |-> ext, chunk_type |-> <<>>, message |-> <<>>,
                   before |-> file, res |-> r.res]
        /\ UNCHANGED <<text, ctype, value, chunk>>

RunVerify ==
    \E ext \in Exts :
        \E r \in {verify(file, ext)} :
        /\ file' = r.file
        /\ out' = [cmd |-> "verify", ext |-> ext, chunk_type |-> <<>>, message |-> <<>>,
                   before |-> file, res |-> r.res]
        /\ UNCHANGED <<text, ctype, value, chunk>>

Next == RunEncode \/ RunDecode \/ RunRemove \/ RunPrint \/ RunVerify

Spec == Init /\ [][Next]_vars

(***************************************************************************)
(* Properties of ChunkType and Chunk, checked under LibSpec                *)
(***************************************************************************)
Parsed == chunk.via \in {"try_from", "reparse"}

Built == chunk.res.tag = "Ok"

\* C1: parsing the serialized bytes of any Chunk built by Chunk::new or by a
\* successful parse succeeds and yields a Chunk with the same length, type
\* tag, payload and checksum.
C1_ChunkRoundTrip == chunk.via = "reparse" => chunk.res = Ok(chunk.orig.val)

C4_LengthInvariant ==
    Built => chunk.res.val.len = usize_as_u32(Len(chunk.res.val.data))

\* C5: a parse of a slice whose first four bytes declare `length` fails with
\* TooShort when the slice holds fewer than 12 + length bytes, and a
\* successful parse takes exactly 12 + length bytes of it.
C5_ParseFraming ==
    (chunk.via = "try_from" /\ Len(value) >= 4) =>
        LET length == u32_from_be_bytes(SubSeq(value, 1, 4))
        IN  /\ ~ HoldsRecord(length, Len(value)) => chunk.res = Err("TooShort")
            /\ Built => Len(value) = 12 + u32_as_usize(length)

\* C6: every ChunkType construction is validated: an input that is not 4
\* bytes long fails with InvalidLength, one holding a byte that is not an
\* ASCII letter fails with NotAscii, and every ChunkType that exists holds 4
\* ASCII letters.
C6_TypeValidated ==
    /\ (ctype.tag # "None" /\ Len(text) # 4) => ctype = Err("InvalidLength")
    /\ (/\ ctype.tag # "None"
        /\ Len(text) = 4
        /\ \E i \in 1..4 : ~ is_ascii_alphabetic(text[i]))
          => ctype = Err("NotASCII")
    /\ ctype.tag = "Ok" =>
          /\ Len(ctype.val.code) = 4
          /\ \A i \in 1..4 : is_ascii_alphabetic(ctype.val.code[i])

\* C7: for every ChunkType, is_critical holds iff byte 0 is uppercase,
\* is_public iff byte 1 is uppercase, is_reserved_bit_valid iff byte 2 is
\* uppercase and is_safe_to_copy iff byte 3 is lowercase; "Rust", whose byte
\* 2 is lowercase, still constructs.
C7_Classification ==
    /\ ctype.tag = "Ok" =>
          /\ is_critical(ctype.val) <=> ctype.val.code[1] \in 65..90
          /\ is_public(ctype.val) <=> ctype.val.code[2] \in 65..90
          /\ is_reserved_bit_valid(ctype.val) <=> ctype.val.code[3] \in 65..90
          /\ is_safe_to_copy(ctype.val) <=> ctype.val.code[4] \in 97..122
    /\ text = <<82, 117, 115, 116>> =>
          (ctype.tag = "Ok" /\ ~ is_reserved_bit_valid(ctype.val))

\* the slice parsed last holds a type tag of four ASCII letters
LettersTag == \A i \in 5..8 : is_ascii_alphabetic(value[i])

\* C11 as claimed: parsing the serialized bytes of any Chunk with one bit of
\* the type tag or payload flipped fails, and the failure is InvalidCrc.
C11_FlipInvalidCrc == chunk.via = "flip" => chunk.res = Err("InvalidCrc")

\* C11 amended: parsing the serialized bytes of any Chunk with one bit of the
\* type tag or payload flipped fails; the failure is InvalidCrc when the tag
\* after the flip is four ASCII letters, and the error of the type tag (not
\* UTF-8, or NotASCII) when it is not.
C11_FlipRejected ==
    chunk.via = "flip" =>
        /\ chunk.res.tag = "Err"
        /\ LettersTag => chunk.res.err = "InvalidCrc"
        /\ ~ LettersTag =>
              chunk.res.err \in {"NotASCII", "Invalid UTF-8 in chunk type"}

\* C11 witness: a bit of the type tag was flipped, the tag is still four
\* letters, and the parse failed with InvalidCrc.
C11_Witness ==
    /\ chunk.via = "flip"
    /\ \E i \in 5..8 : value[i] # Chunk_as_bytes(chunk.orig.val)[i]
    /\ LettersTag
    /\ chunk.res = Err("InvalidCrc")

\* C13: formatting any Chunk built by Chunk::new or by a successful parse,
\* an IHDR chunk whose length field or payload size is not 13 included,
\* completes with a line and does not panic.
C13_FormatTotal == out.cmd = "fmt" => out.res.tag = "Ok"

(***************************************************************************)
(* Properties of Png and the commands, checked under Spec                  *)
(***************************************************************************)
\* the chunk holds a tag of 4 letters, the CRC-32 of its tag and payload, and
\* the length of its payload
ValidChunk(c) ==
    /\ Len(c.chunk_type.code) = 4
    /\ \A i \in 1..4 : is_ascii_alphabetic(c.chunk_type.code[i])
    /\ c.crc = checksum(c.chunk_type.code \o c.data)
    /\ c.len = usize_as_u32(Len(c.data))

\* the command last run read a file named *.png
RanOnPng(cmd) == out.cmd = cmd /\ out.ext = "png"

\* C2: serializing the Png parsed from any accepted buffer, with no mutation
\* in between, gives back the buffer byte for byte: the signature followed
\* by every chunk's record in the parsed order.
C2_PngRoundTrip ==
    \A b \in {file, out.before} : \A p \in {Png_try_from(b)} :
        p.tag = "Ok" => Png_as_bytes(p.val) = b

\* C2 witness: a file written by encode was accepted with two chunks or more.
C2_Witness ==
    /\ RanOnPng("encode")
    /\ out.res.tag = "Ok"
    /\ \E p \in {Png_try_from(file)} : p.tag = "Ok" /\ Len(p.val.chunks) >= 2

\* C8: remove on a container with a chunk whose tag is byte for byte the one
\* asked removes and returns the first such chunk and leaves every other
\* chunk in its place and order; with no such chunk it fails with NotFound
\* and the container is unchanged.
C8_RemoveFirst ==
    RanOnPng("remove") =>
        \A b \in {Png_try_from(out.before)} : b.tag = "Ok" =>
            LET cs == b.val.chunks
                M == {i \in 1..Len(cs) : cs[i].chunk_type.code = out.chunk_type}
            IN  IF M = {}
                THEN out.res = Err("NotFound") /\ file = out.before
                ELSE \E i \in M :
                        /\ \A j \in M : i <= j
                        /\ out.res.tag = "Ok"
                        /\ remove_first_chunk(b.val, out.chunk_type).val.chunk = cs[i]
                        /\ \E a \in {Png_try_from(file)} :
                              /\ a.tag = "Ok"
                              /\ Len(a.val.chunks) = Len(cs) - 1
                              /\ \A j \in 1..(Len(cs) - 1) :
                                    a.val.chunks[j] = cs[IF j < i THEN j ELSE j + 1]

\* C8 witness: remove took the first of two chunks of the tag asked, and the
\* later one is still in the file.
C8_Witness ==
    /\ RanOnPng("remove")
    /\ out.res.tag = "Ok"
    /\ chunk_by_type(Png_try_from(file).val, out.chunk_type).tag = "Some"

\* C9: after a chunk of a tag t that the container did not hold is appended
\* with payload p and the container is serialized and parsed again, the
\* first chunk of tag t carries p and every earlier chunk precedes it
\* unchanged; a remove of t that follows leaves no chunk of tag t and a file
\* equal to the bytes before the append.
C9_AppendFindRemove ==
    (RanOnPng("encode") /\ out.res.tag = "Ok") =>
        \A b \in {Png_try_from(out.before)} :
            (b.tag = "Ok" /\ chunk_by_type(b.val, out.chunk_type).tag = "None") =>
                \E a \in {Png_try_from(file)} :
                    /\ a.tag = "Ok"
                    /\ Len(a.val.chunks) = Len(b.val.chunks) + 1
                    /\ SubSeq(a.val.chunks, 1, Len(b.val.chunks)) = b.val.chunks
                    /\ chunk_by_type(a.val, out.chunk_type)
                          = Some(a.val.chunks[Len(a.val.chunks)])
                    /\ a.val.chunks[Len(a.val.chunks)].data = out.message
                    /\ decode(file, "png", out.chunk_type).res
                          = Ok(<<"Message: ", out.message>>)
                    /\ \E r \in {remove(file, "png", out.chunk_type)} :
                          /\ r.res.tag = "Ok"
                          /\ r.file = out.before
                          /\ chunk_by_type(Png_try_from(r.file).val, out.chunk_type).tag
                                = "None"

\* C9 witness: encode appended a non-empty message under a tag that a
\* container of one chunk or more did not hold.
C9_Witness ==
    /\ RanOnPng("encode")
    /\ out.res.tag = "Ok"
    /\ out.message # <<>>
    /\ \E b \in {Png_try_from(out.before)} :
          /\ b.tag = "Ok"
          /\ b.val.chunks # <<>>
          /\ chunk_by_type(b.val, out.chunk_type).tag = "None"

\* C10: a buffer is accepted only if it starts with the signature, else the
\* parse fails with InvalidSignature, and the rest is a run of whole valid
\* records that ends at the end of the buffer; bytes left after such a run
\* that do not make a whole record fail with TrailingGarbage; a failure
\* gives no Png, and the command that met it stops with that failure.
C10_ParseAccepts ==
    /\ \A p \in {Png_try_from(file)} :
          /\ (Len(file) < 8 \/ SubSeq(file, 1, 8) # STANDARD_HEADER)
                => p = Err("InvalidSignature")
          /\ p.tag = "Ok" =>
                /\ SubSeq(file, 1, 8) = STANDARD_HEADER
                /\ file = STANDARD_HEADER \o ChunksAsBytes(p.val.chunks)
                /\ \A i \in 1..Len(p.val.chunks) : ValidChunk(p.val.chunks[i])
          /\ \A k \in 1..(Len(file) - 8) :
                (/\ k < 12 \/ ~ HoldsRecord(u32_from_be_bytes(
                                    SubSeq(file, Len(file) - k + 1, Len(file) - k + 4)), k)
                 /\ Png_try_from(SubSeq(file, 1, Len(file) - k)).tag = "Ok")
                    => p = Err("TrailingGarbage")
          /\ p.tag # "Ok" => p.tag = "Err" /\ DOMAIN p = {"tag", "err"}
    /\ (out.cmd # "none" /\ out.ext = "png") =>
          \A q \in {Png_try_from(out.before)} :
              q.tag # "Ok" => out.res = q /\ file = out.before

\* C10 witness: print met a file of whole records followed by bytes that
\* make no record, and stopped with TrailingGarbage.
C10_Witness ==
    /\ RanOnPng("print")
    /\ out.res = Err("TrailingGarbage")
    /\ Len(file) > 8
    /\ SubSeq(file, 1, 8) = STANDARD_HEADER

\* C12: verify always answers with a boolean and raises no error: true when
\* the bytes parse as a container whose last chunk is IEND, false otherwise,
\* and so false for a bad signature, a short or corrupt chunk and trailing
\* bytes.
C12_VerifyTotal ==
    RanOnPng("verify") =>
        \E p \in {Png_try_from(out.before)} :
            out.res =
                IF /\ p.tag = "Ok"
                   /\ p.val.chunks # <<>>
                   /\ p.val.chunks[Len(p.val.chunks)].chunk_type.code
                         = <<73, 69, 78, 68>>
                THEN Ok(<<"File is a valid PNG">>)
                ELSE Ok(<<"File is not a valid PNG">>)

====
